---- MODULE Spec2Model ----
(***************************************************************************)
(* Model of tools/build_site.py: the signature classifier, the ingestion   *)
(* normalizer, the entry resolver and the build pipeline with its manifest *)
(* and failure artifact.                                                   *)
(*                                                                         *)
(* Strings (file names, paths, file contents) are sequences of one-        *)
(* character strings; "x03", "x04", "x60" stand for the bytes 0x03, 0x04   *)
(* and 0x60.                                                               *)
(***************************************************************************)
EXTENDS Integers, Sequences, FiniteSets, TLC

VARIABLES
    tree,      \* SRC_DIR: path -> file, a file being [bytes, readable]
    phase,     \* position of the scenario that is running
    tree0,     \* the tree a normalization run started from
    loc,       \* where each file of tree0 is now (path -> path)
    exitmsg,   \* the SystemExit normalize_downloaded_files raised, or NoExit
    renames,   \* number of "[normalize]" renames of the last run
    visited,   \* the sorted file list collect_entries walked
    entries,   \* the list collect_entries returned (main's entries)
    args,      \* main: the phases requested, [do_sync, do_build, no_clean]
    idx,       \* main: number of entries the build loop has finished
    current_entry, \* main: current_entry
    manifest,  \* docs/manifest.json
    failure,   \* docs/_ci/failure.json
    site,      \* the published pages of docs/: path -> "old" | "new"
    site0,     \* the published pages when the run started
    wlog,      \* the manifest and failure-artifact writes of this run
    failed_in, \* the step of this run that raised, "none" when none did
    runs       \* number of runs of main started

vars == <<tree, phase, tree0, loc, exitmsg, renames, visited, entries, args, idx,
          current_entry, manifest, failure, site, site0, wlog, failed_in, runs>>

\* main's variables, untouched while another scenario runs
mainVars == <<args, idx, current_entry, manifest, failure, site, site0, wlog,
              failed_in, runs>>

None == "None"
\* "no error page", "no SystemExit" and "no path", as values of the right shape
NoError == [name |-> <<>>, snippet |-> <<>>]
NoExit == [kind |-> "none", names |-> <<>>]
NoPath == <<>>
NoEntry == [kind |-> "none"]
NoArgs == [do_sync |-> FALSE, do_build |-> FALSE, no_clean |-> FALSE]
Absent == [status |-> "absent"]
EmptyTree == <<>>

\* main's variables before any run of main
MainIdle ==
    /\ args = NoArgs
    /\ idx = 0
    /\ current_entry = NoEntry
    /\ manifest = Absent
    /\ failure = Absent
    /\ site = <<>>
    /\ site0 = <<>>
    /\ wlog = <<>>
    /\ failed_in = "none"
    /\ runs = 0

------------------------------------------------------------------------------
(* Bounds of the model                                                      *)

\* largest number of files in a tree given to the normalizer
MaxFiles == 4
\* largest number of files in a tree given to the entry resolver
MaxDocs == 3
\* largest number of runs of main in a row
MaxRuns == 2

------------------------------------------------------------------------------
(* Characters and strings                                                   *)

\* printable ASCII, code 32 .. 126, in code order
AsciiTable == <<" ","!","\"","#","$","%","&","'","(",")","*","+",",","-",".","/","0","1","2","3","4","5","6","7","8","9",":",";","<","=",">","?","@","A","B","C","D","E","F","G","H","I","J","K","L","M","N","O","P","Q","R","S","T","U","V","W","X","Y","Z","[","\\","]","^","_","x60","a","b","c","d","e","f","g","h","i","j","k","l","m","n","o","p","q","r","s","t","u","v","w","x","y","z","{","|","}","~">>

Ord == [c \in {AsciiTable[i] : i \in 1..Len(AsciiTable)} \cup {"x03", "x04", "\n"} |->
          IF c = "x03" THEN 3
          ELSE IF c = "x04" THEN 4
          ELSE IF c = "\n" THEN 10
          ELSE 31 + CHOOSE i \in 1..Len(AsciiTable) : AsciiTable[i] = c]

Chr(n) == AsciiTable[n - 31]

IsUpperChar(c) == Ord[c] >= 65 /\ Ord[c] <= 90
IsLowerChar(c) == Ord[c] >= 97 /\ Ord[c] <= 122
IsDigitChar(c) == Ord[c] >= 48 /\ Ord[c] <= 57
IsSpaceChar(c) == c \in {" ", "\n"}

\* str.lower() / bytes.lower() on ASCII
LowerChar(c) == IF IsUpperChar(c) THEN Chr(Ord[c] + 32) ELSE c
Lower(s) == [i \in 1..Len(s) |-> LowerChar(s[i])]

MinOf(S) == CHOOSE x \in S : \A y \in S : x <= y
MaxOf(S) == CHOOSE x \in S : \A y \in S : x >= y

Take(s, n) == SubSeq(s, 1, IF n < Len(s) THEN n ELSE Len(s))
Drop(s, n) == SubSeq(s, n + 1, Len(s))

SeqRange(s) == {s[i] : i \in 1..Len(s)}

StartsWith(s, pre) == Len(pre) <= Len(s) /\ SubSeq(s, 1, Len(pre)) = pre

\* Python's < on str: code point order, a proper prefix first
StrLess(a, b) ==
    LET n == IF Len(a) < Len(b) THEN Len(a) ELSE Len(b)
        d == {i \in 1..n : a[i] # b[i]}
    IN  IF d = {} THEN Len(a) < Len(b)
        ELSE Ord[a[MinOf(d)]] < Ord[b[MinOf(d)]]

\* bytes.lstrip() / str.strip() helpers
LStrip(s) ==
    LET k == {i \in 1..Len(s) : ~IsSpaceChar(s[i])}
    IN  IF k = {} THEN <<>> ELSE SubSeq(s, MinOf(k), Len(s))

\* decimal digits of a natural number, as in f"{i}"
RECURSIVE IntToStr(_)
IntToStr(n) == IF n < 10 THEN <<Chr(48 + n)>>
               ELSE IntToStr(n \div 10) \o <<Chr(48 + (n % 10))>>

------------------------------------------------------------------------------
(* pathlib                                                                  *)

\* index of the last "/" of a path, 0 when there is none
LastSlash(p) == LET k == {i \in 1..Len(p) : p[i] = "/"}
                IN  IF k = {} THEN 0 ELSE MaxOf(k)

\* Path.name and Path.parent (relative to the root of the tree)
PathName(p) == Drop(p, LastSlash(p))
PathParent(p) == Take(p, LastSlash(p) - 1)

\* PurePath.suffix: from the last "." of the name, unless it is the first
\* or the last character of the name
SuffixOf(name) ==
    LET k == {i \in 1..Len(name) : name[i] = "."}
        i == IF k = {} THEN 0 ELSE MaxOf(k)
    IN  IF i > 1 /\ i < Len(name) THEN Drop(name, i - 1) ELSE <<>>

PathSuffix(p) == SuffixOf(PathName(p))

\* PurePath.stem
PathStem(p) == LET n == PathName(p) IN Take(n, Len(n) - Len(SuffixOf(n)))

\* PurePath.with_suffix
WithSuffix(p, suf) == Take(p, Len(p) - Len(PathSuffix(p))) \o suf

\* Path.exists(): a file of the tree, or a directory above one
Exists(fs, p) ==
    \/ p \in DOMAIN fs
    \/ \E q \in DOMAIN fs : StartsWith(q, p \o <<"/">>)

\* Path.rename(): POSIX rename replaces an existing target
Rename(fs, p, target) ==
    [q \in (DOMAIN fs \ {p}) \cup {target} |-> IF q = target THEN fs[p] ELSE fs[q]]

\* sorted(files, key=lambda x: str(x).lower()): the orders a stable sort by
\* the lower-cased path can give, the directory listing order being free
RECURSIVE VisitOrders(_)
VisitOrders(S) ==
    IF S = {} THEN {<<>>}
    ELSE LET least == {m \in S : \A o \in S : ~StrLess(Lower(o), Lower(m))}
         IN  UNION {{<<m>> \o t : t \in VisitOrders(S \ {m})} : m \in least}

------------------------------------------------------------------------------
(* Signature classifier                                                     *)

HeadLen == 2048
SnippetLen == 300

PdfMagic == <<"%","P","D","F">>
ZipMagic == <<"P","K","x03","x04">>
DoctypeTag == <<"<","!","d","o","c","t","y","p","e"," ","h","t","m","l">>
HtmlTag == <<"<","h","t","m","l">>

\* read_head: the first n bytes, b"" when the file cannot be read
read_head(f, n) == IF f.readable THEN Take(f.bytes, n) ELSE <<>>

\* sniff_kind_and_error: [kind, error], error naming the file
sniff_kind_and_error(fs, p) ==
    LET head == read_head(fs[p], HeadLen)
        head_l == Lower(LStrip(head))
    IN  IF head = <<>> THEN [kind |-> None, error |-> NoError]
        ELSE IF StartsWith(head, PdfMagic) THEN [kind |-> "pdf", error |-> NoError]
        ELSE IF StartsWith(head, ZipMagic) THEN [kind |-> "docx", error |-> NoError]
        ELSE IF StartsWith(head_l, DoctypeTag) \/ StartsWith(head_l, HtmlTag)
             THEN [kind |-> None,
                   error |-> [name |-> PathName(p), snippet |-> Take(head, SnippetLen)]]
        ELSE [kind |-> None, error |-> NoError]

------------------------------------------------------------------------------
(* Ingestion normalizer                                                     *)

UniqueLimit == 1000
ErrCap == 3

DotPdf == <<".","p","d","f">>
DotDocx == <<".","d","o","c","x">>
StubSuffixes == {<<".","g","d","o","c">>, <<".","g","s","h","e","e","t">>, <<".","g","s","l","i","d","e","s">>}

KindSuffix(kind) == IF kind = "pdf" THEN DotPdf ELSE DotDocx

\* the for loop of unique_path: the first free "base-i.suf" with i < 1000,
\* NoPath when the 999 candidates are all taken (SystemExit)
RECURSIVE FirstFree(_, _, _, _)
FirstFree(fs, base, suf, i) ==
    IF i >= UniqueLimit THEN NoPath
    ELSE LET candidate == base \o <<"-">> \o IntToStr(i) \o suf
         IN  IF ~Exists(fs, candidate) THEN candidate
             ELSE FirstFree(fs, base, suf, i + 1)

\* unique_path without the existence check
unique_path_unchecked(fs, target) == target

\* unique_path: the target when it is free, else the first free candidate
unique_path(fs, target) ==
    IF ~Exists(fs, target) THEN target
    ELSE FirstFree(fs, WithSuffix(target, <<>>), PathSuffix(target), 1)

\* the loop body without the "ext != kind" test
NeedsRename_always(ext, kind) == TRUE

\* does the loop body rename a file of this extension and kind (lines 333-343)
NeedsRename(ext, kind) ==
    IF ext \in {DotPdf, DotDocx} THEN ext # KindSuffix(kind) ELSE TRUE

\* the state the scan of normalize_downloaded_files carries
ScanStart(fs) ==
    [fs |-> fs, loc |-> [p \in DOMAIN fs |-> p], html_errors |-> <<>>,
     renames |-> 0, exit |-> NoExit]

\* one iteration of the for loop over the sorted files
ScanFile(st, p) ==
    LET sniff == sniff_kind_and_error(st.fs, p)
        ext == Lower(PathSuffix(p))
    IN  IF ext \in StubSuffixes THEN st
        ELSE IF sniff.error # NoError
             THEN [st EXCEPT !.html_errors = Append(@, sniff.error)]
        ELSE IF sniff.kind = None THEN st
        ELSE IF ~NeedsRename(ext, sniff.kind) THEN st
        ELSE LET target == unique_path(st.fs, WithSuffix(p, KindSuffix(sniff.kind)))
             IN  IF target = NoPath
                 THEN [st EXCEPT !.exit = [kind |-> "unique", names |-> <<PathName(p)>>]]
                 ELSE [st EXCEPT
                          !.fs = Rename(st.fs, p, target),
                          !.loc = [o \in DOMAIN st.loc |->
                                      IF st.loc[o] = p THEN target ELSE st.loc[o]],
                          !.renames = @ + 1]

RECURSIVE ScanLoop(_, _, _)
ScanLoop(st, files, i) ==
    IF i > Len(files) \/ st.exit # NoExit THEN st
    ELSE ScanLoop(ScanFile(st, files[i]), files, i + 1)

\* normalize_downloaded_files failing with the first error page alone
normalize_first_error_only(fs, files) ==
    LET st == ScanLoop(ScanStart(fs), files, 1)
    IN  IF st.exit = NoExit /\ st.html_errors # <<>>
        THEN [st EXCEPT !.exit = [kind |-> "html", names |-> <<st.html_errors[1].name>>]]
        ELSE st

\* normalize_downloaded_files over the files in the given sorted order; exit
\* is the SystemExit raised: the aggregated message names the first ErrCap
\* error pages
normalize_downloaded_files(fs, files) ==
    LET st == ScanLoop(ScanStart(fs), files, 1)
    IN  IF st.exit = NoExit /\ st.html_errors # <<>>
        THEN [st EXCEPT !.exit = [kind |-> "html",
                                  names |-> [i \in 1..Len(Take(st.html_errors, ErrCap)) |->
                                               st.html_errors[i].name]]]
        ELSE st

------------------------------------------------------------------------------
(* Trees                                                                    *)

PdfBytes == [bytes |-> <<"%","P","D","F","-","1">>, readable |-> TRUE]
ZipBytes == [bytes |-> <<"P","K","x03","x04","w">>, readable |-> TRUE]
HtmlBytes == [bytes |-> <<"\n","<","H","T","M","L",">">>, readable |-> TRUE]
EmptyBytes == [bytes |-> <<>>, readable |-> TRUE]
JunkBytes == [bytes |-> <<"h","i">>, readable |-> TRUE]
LockedPdf == [bytes |-> <<"%","P","D","F","-","1">>, readable |-> FALSE]

Trees(paths, contents, n) ==
    UNION {[S -> contents] : S \in {T \in SUBSET paths : Cardinality(T) <= n}}

NormPaths == {<<"A",".","t","x","t">>, <<"A",".","p","d","f">>, <<"A","-","1",".","p","d","f">>, <<"s","u","b","/","B">>, <<"s","u","b","/","B",".","p","d","f">>, <<"s","u","b","/","B",".","D","O","C","X">>, <<"x",".","g","d","o","c">>}
NormContents == {PdfBytes, ZipBytes, HtmlBytes, EmptyBytes, JunkBytes, LockedPdf}

------------------------------------------------------------------------------
(* Normalization scenario: normalize a tree, then normalize the result      *)

InitNorm ==
    /\ tree \in Trees(NormPaths, NormContents, MaxFiles)
    /\ phase = "raw"
    /\ tree0 = tree
    /\ loc = [p \in DOMAIN tree |-> p]
    /\ exitmsg = NoExit
    /\ renames = 0
    /\ visited = <<>>
    /\ entries = <<>>
    /\ MainIdle

\* first run of normalize_downloaded_files(SRC_DIR)
Normalize ==
    /\ phase = "raw"
    /\ \E files \in VisitOrders(DOMAIN tree) :
         LET st == normalize_downloaded_files(tree, files)
         IN  /\ tree' = st.fs
             /\ loc' = st.loc
             /\ exitmsg' = st.exit
             /\ renames' = st.renames
    /\ tree0' = tree
    /\ phase' = "normalized"
    /\ UNCHANGED <<visited, entries>>
    /\ UNCHANGED mainVars

\* a second run on the tree a run without failure left
NormalizeAgain ==
    /\ phase = "normalized"
    /\ exitmsg = NoExit
    /\ \E files \in VisitOrders(DOMAIN tree) :
         LET st == normalize_downloaded_files(tree, files)
         IN  /\ tree' = st.fs
             /\ loc' = st.loc
             /\ exitmsg' = st.exit
             /\ renames' = st.renames
    /\ tree0' = tree
    /\ phase' = "renormalized"
    /\ UNCHANGED <<visited, entries>>
    /\ UNCHANGED mainVars

NextNorm == Normalize \/ NormalizeAgain

SpecNorm == InitNorm /\ [][NextNorm]_vars

------------------------------------------------------------------------------
(* Entry resolver                                                           *)

IsSlugChar(c) == IsLowerChar(c) \/ IsDigitChar(c)

\* str.strip(chars): drop the leading and trailing characters that are in cs
StripChars(s, cs) ==
    LET k == {i \in 1..Len(s) : s[i] \notin cs}
    IN  IF k = {} THEN <<>> ELSE SubSeq(s, MinOf(k), MaxOf(k))

StripSpace(s) == StripChars(s, {" ", "\n"})

\* re.sub(r"[^a-z0-9]+", "-", t): each run of other characters becomes one "-"
RECURSIVE SubNonSlugRuns(_, _)
SubNonSlugRuns(t, i) ==
    IF i > Len(t) THEN <<>>
    ELSE IF IsSlugChar(t[i]) THEN <<t[i]>> \o SubNonSlugRuns(t, i + 1)
    ELSE IF i > 1 /\ ~IsSlugChar(t[i - 1]) THEN SubNonSlugRuns(t, i + 1)
    ELSE <<"-">> \o SubNonSlugRuns(t, i + 1)

\* re.sub(r"-{2,}", "-", t): each run of two or more "-" becomes one "-"
RECURSIVE SubHyphenRuns(_, _)
SubHyphenRuns(t, i) ==
    IF i > Len(t) THEN <<>>
    ELSE IF t[i] = "-" /\ i > 1 /\ t[i - 1] = "-" THEN SubHyphenRuns(t, i + 1)
    ELSE <<t[i]>> \o SubHyphenRuns(t, i + 1)

ItemSlug == <<"i","t","e","m">>

slugify(text) ==
    LET t1 == Lower(StripSpace(text))
        t2 == SubNonSlugRuns(t1, 1)
        t3 == StripChars(SubHyphenRuns(t2, 1), {"-"})
    IN  IF t3 = <<>> THEN ItemSlug ELSE t3

\* Path.parts of a relative directory
RECURSIVE PathParts(_)
PathParts(d) ==
    LET k == {i \in 1..Len(d) : d[i] = "/"}
    IN  IF d = <<>> THEN <<>>
        ELSE IF k = {} THEN <<d>>
        ELSE <<Take(d, MinOf(k) - 1)>> \o PathParts(Drop(d, MinOf(k)))

RECURSIVE JoinParts(_)
JoinParts(parts) ==
    IF parts = <<>> THEN <<>>
    ELSE IF Len(parts) = 1 THEN parts[1]
    ELSE parts[1] \o <<"/">> \o JoinParts(Tail(parts))

\* str(Path()) is "."
RootDir == <<".">>

\* safe_rel_dir, as the string of the resulting path
safe_rel_dir(rel_dir) ==
    IF rel_dir = <<>> THEN RootDir
    ELSE LET parts == PathParts(rel_dir)
         IN  JoinParts([i \in 1..Len(parts) |-> slugify(parts[i])])

\* str.replace(old, new) for single characters
ReplaceChar(s, old, new) == [i \in 1..Len(s) |-> IF s[i] = old THEN new ELSE s[i]]

title_from_path(p) ==
    LET t == StripSpace(ReplaceChar(ReplaceChar(PathStem(p), "_", " "), "-", " "))
    IN  IF t = <<>> THEN PathStem(p) ELSE t

\* the sentinel that puts titles without a leading number last (10**9)
NoNumberKey == 1000000000
MaxKeyDigits == 4

IsWordChar(c) == IsLowerChar(c) \/ IsUpperChar(c) \/ IsDigitChar(c) \/ c = "_"

RECURSIVE StrToInt(_)
StrToInt(ds) == IF ds = <<>> THEN 0
                ELSE 10 * StrToInt(Take(ds, Len(ds) - 1)) + (Ord[ds[Len(ds)]] - 48)

\* leading_number_key: re.match(r"^\s*(\d{1,4})\b", title)
leading_number_key(title) ==
    LET ns == {i \in 1..Len(title) : ~IsSpaceChar(title[i])}
        s == IF ns = {} THEN Len(title) + 1 ELSE MinOf(ns)
        nd == {i \in s..Len(title) : ~IsDigitChar(title[i])}
        e == IF nd = {} THEN Len(title) + 1 ELSE MinOf(nd)
        \* digits are title[s..e-1]; \b holds at e when title[e] is no word character
        matched == /\ e - s >= 1
                   /\ e - s <= MaxKeyDigits
                   /\ (e > Len(title) \/ ~IsWordChar(title[e]))
    IN  IF matched THEN [num |-> StrToInt(SubSeq(title, s, e - 1)), text |-> Lower(title)]
        ELSE [num |-> NoNumberKey, text |-> Lower(title)]

\* the counter bucket[stem] of used[rel_dir], 0 when the stem is not in it
UsedCount(used, rel_dir, stem) ==
    IF <<rel_dir, stem>> \in DOMAIN used THEN used[<<rel_dir, stem>>] ELSE 0

\* disambiguate_slug numbering the second file "-1"
disambiguate_slug_from_one(used, rel_dir, stem) ==
    LET n == UsedCount(used, rel_dir, stem)
    IN  [used |-> [k \in DOMAIN used \cup {<<rel_dir, stem>>} |->
                      IF k = <<rel_dir, stem>> THEN n + 1 ELSE used[k]],
         stem |-> IF n = 0 THEN stem ELSE stem \o <<"-">> \o IntToStr(n)]

\* disambiguate_slug: the updated counters and the stem returned
disambiguate_slug(used, rel_dir, stem) ==
    LET n == UsedCount(used, rel_dir, stem)
    IN  [used |-> [k \in DOMAIN used \cup {<<rel_dir, stem>>} |->
                      IF k = <<rel_dir, stem>> THEN n + 1 ELSE used[k]],
         stem |-> IF n = 0 THEN stem ELSE stem \o <<"-">> \o IntToStr(n + 1)]

NotesDir == <<"n","o","t","e","s">>
DownloadsDir == <<"d","o","w","n","l","o","a","d","s">>
DotHtml == <<".","h","t","m","l">>
DotPdfHtml == <<".","p","d","f",".","h","t","m","l">>

\* OUT_NOTES / rel_dir / name (and OUT_DOWNLOADS), relative to DOCS_DIR
OutPath(top, rel_dir, name) ==
    IF rel_dir = RootDir THEN top \o <<"/">> \o name
    ELSE top \o <<"/">> \o rel_dir \o <<"/">> \o name

\* the Entry collect_entries builds for file f with the resolved stem
MakeEntry(f, rel_dir, rel_stem) ==
    LET ext == Lower(PathSuffix(f))
        title == title_from_path(f)
    IN  [kind |-> IF ext = DotDocx THEN "docx" ELSE "pdf",
         title |-> title,
         rel_dir |-> rel_dir,
         rel_stem |-> rel_stem,
         src |-> f,
         out_html |-> OutPath(NotesDir, rel_dir,
                              rel_stem \o (IF ext = DotDocx THEN DotHtml ELSE DotPdfHtml)),
         out_file |-> OutPath(DownloadsDir, rel_dir,
                              rel_stem \o (IF ext = DotDocx THEN DotDocx ELSE DotPdf)),
         sort_key |-> leading_number_key(title)]

\* the for loop of collect_entries over the sorted files
RECURSIVE CollectLoop(_, _, _, _)
CollectLoop(files, i, used, acc) ==
    IF i > Len(files) THEN acc
    ELSE LET f == files[i]
             ext == Lower(PathSuffix(f))
         IN  IF ext \notin {DotDocx, DotPdf} THEN CollectLoop(files, i + 1, used, acc)
             ELSE LET rel_dir == safe_rel_dir(PathParent(f))
                      r == disambiguate_slug(used, rel_dir, slugify(PathStem(f)))
                  IN  CollectLoop(files, i + 1, r.used,
                                  Append(acc, MakeEntry(f, rel_dir, r.stem)))

\* the order of sorted(entries, key=(str(rel_dir).lower(), sort_key))
EntryKeyLess(a, b) ==
    LET da == Lower(a.rel_dir)
        db == Lower(b.rel_dir)
    IN  \/ StrLess(da, db)
        \/ da = db /\ a.sort_key.num < b.sort_key.num
        \/ da = db /\ a.sort_key.num = b.sort_key.num
                   /\ StrLess(a.sort_key.text, b.sort_key.text)

\* sorted(): stable, entries with equal keys keep their order
RECURSIVE SortEntries(_)
SortEntries(es) ==
    IF es = <<>> THEN <<>>
    ELSE LET rest == SortEntries(Tail(es))
             e == es[1]
             k == {i \in 1..Len(rest) : ~EntryKeyLess(rest[i], e)}
             at == IF k = {} THEN Len(rest) + 1 ELSE MinOf(k)
         IN  SubSeq(rest, 1, at - 1) \o <<e>> \o SubSeq(rest, at, Len(rest))

\* collect_entries over the files in the given sorted order
collect_entries(files) == SortEntries(CollectLoop(files, 1, <<>>, <<>>))

CollectPaths == {<<"N","o","t","e",".","d","o","c","x">>, <<"n","o","t","e","!","!",".","d","o","c","x">>, <<"n","o","t","e","-","2",".","d","o","c","x">>, <<"n","o","t","e",".","p","d","f">>, <<"S","u","b"," ","D","i","r","/","a",".","d","o","c","x">>, <<"s","u","b","-","d","i","r","/","A",".","d","o","c","x">>, <<"b",".","t","x","t">>, <<"0","3","_","L","e","c",".","P","D","F">>, <<"N","O","T","E",".","p","d","f">>}

------------------------------------------------------------------------------
(* Entry resolution scenario: resolve the entries of a tree                 *)

InitCollect ==
    /\ tree \in Trees(CollectPaths, {ZipBytes}, MaxDocs)
    /\ phase = "tree"
    /\ tree0 = tree
    /\ loc = [p \in DOMAIN tree |-> p]
    /\ exitmsg = NoExit
    /\ renames = 0
    /\ visited = <<>>
    /\ entries = <<>>
    /\ MainIdle

\* entries = collect_entries(SRC_DIR)
Collect ==
    /\ phase = "tree"
    /\ \E files \in VisitOrders(DOMAIN tree) :
         /\ visited' = files
         /\ entries' = collect_entries(files)
    /\ phase' = "collected"
    /\ UNCHANGED <<tree, tree0, loc, exitmsg, renames>>
    /\ UNCHANGED mainVars

NextCollect == Collect

SpecCollect == InitCollect /\ [][NextCollect]_vars

------------------------------------------------------------------------------
(* Build pipeline: main, write_manifest, on_failure                         *)

RootIndex == <<"i","n","d","e","x",".","h","t","m","l">>
NotesIndex == <<"n","o","t","e","s","/","i","n","d","e","x",".","h","t","m","l">>
DownloadsIndex == <<"d","o","w","n","l","o","a","d","s","/","i","n","d","e","x",".","h","t","m","l">>

\* entry_to_json: None for no entry, else the entry's fields with the paths
\* as strings and the sort key as a list
entry_to_json(e) ==
    IF e = NoEntry THEN NoEntry
    ELSE [kind |-> e.kind, title |-> e.title, rel_dir |-> e.rel_dir,
          rel_stem |-> e.rel_stem, src |-> e.src, out_html |-> e.out_html,
          out_file |-> e.out_file, sort_key |-> <<e.sort_key.num, e.sort_key.text>>]

\* the payload write_manifest writes to docs/manifest.json
ManifestPayload(es, status, error, cur) ==
    [status |-> status, error |-> error, current_entry |-> entry_to_json(cur),
     counts |-> Len(es), entries |-> [i \in 1..Len(es) |-> entry_to_json(es[i])]]

\* the payload on_failure writes to docs/_ci/failure.json
FailurePayload(error, cur) ==
    [status |-> "written", error |-> error, current_entry |-> entry_to_json(cur)]

EndsWith(s, suf) == Len(suf) <= Len(s) /\ SubSeq(s, Len(s) - Len(suf) + 1, Len(s)) = suf

\* the names root.rglob("*") yields for a file: its own and its directories'
RECURSIVE AllNames(_)
AllNames(p) ==
    IF LastSlash(p) = 0 THEN {p} ELSE {PathName(p)} \cup AllNames(PathParent(p))

\* assert_has_docs: root.rglob("*.docx") or root.rglob("*.pdf") finds a name
assert_has_docs(fs) ==
    \E p \in DOMAIN fs : \E n \in AllNames(p) : EndsWith(n, DotDocx) \/ EndsWith(n, DotPdf)

\* clean_generated_dirs: docs/notes, docs/downloads (and docs/assets) emptied
clean_generated_dirs(s) ==
    LET keep == {p \in DOMAIN s : ~StartsWith(p, NotesDir \o <<"/">>)
                                  /\ ~StartsWith(p, DownloadsDir \o <<"/">>)}
    IN  [p \in keep |-> s[p]]

\* write_text / copy2 of a set of files of docs/ during this run
Publish(s, paths) == [p \in DOMAIN s \cup paths |-> IF p \in paths THEN "new" ELSE s[p]]

\* the files of the last run are the old files of the next
Aged(s) == [p \in DOMAIN s |-> "old"]

\* the trees a download can leave in content/drive
SyncTrees ==
    { EmptyTree,
      [p \in {<<"A",".","t","x","t">>} |-> PdfBytes],
      [p \in {<<"A",".","t","x","t">>, <<"s","u","b","/","B">>} |-> IF p = <<"A",".","t","x","t">> THEN PdfBytes ELSE ZipBytes],
      [p \in {<<"A",".","t","x","t">>, <<"s","u","b","/","B">>, <<"s","u","b","/","B",".","p","d","f">>} |->
          IF p = <<"A",".","t","x","t">> THEN PdfBytes
          ELSE IF p = <<"s","u","b","/","B">> THEN ZipBytes ELSE HtmlBytes],
      [p \in {<<"A",".","p","d","f">>} |-> EmptyBytes],
      [p \in {<<"s","u","b","/","B",".","D","O","C","X">>} |-> ZipBytes] }

UrlEmptyExit == [kind |-> "url_empty", names |-> <<>>]
NoDocsExit == [kind |-> "no_docs", names |-> <<>>]
Traceback == [kind |-> "traceback", names |-> <<>>]

InitMain ==
    /\ tree = EmptyTree
    /\ phase = "idle"
    /\ tree0 = EmptyTree
    /\ loc = <<>>
    /\ exitmsg = NoExit
    /\ renames = 0
    /\ visited = <<>>
    /\ entries = <<>>
    /\ MainIdle

\* an exception leaves the try block: main's except clauses run next
Raise(step, error) ==
    /\ phase' = "except"
    /\ exitmsg' = error
    /\ failed_in' = step

\* main starts: parse_args, the locals of main (lines 67-77)
Start ==
    /\ phase \in {"idle", "exit_ok", "exit_failed"}
    /\ runs < MaxRuns
    /\ runs' = runs + 1
    /\ \E s, b, nc \in BOOLEAN :
         /\ (nc => b)
         /\ args' = [do_sync |-> s, do_build |-> b, no_clean |-> nc]
         /\ phase' = IF s THEN "require_url" ELSE IF b THEN "prepare" ELSE "exit_ok"
    /\ entries' = <<>>
    /\ current_entry' = NoEntry
    /\ idx' = 0
    /\ exitmsg' = NoExit
    /\ failed_in' = "none"
    /\ wlog' = <<>>
    /\ site' = Aged(site)
    /\ site0' = Aged(site)
    /\ UNCHANGED <<tree, tree0, loc, renames, visited, manifest, failure>>

\* require_env_url with GDRIVE_FOLDER_URL set
RequireEnvUrl ==
    /\ phase = "require_url"
    /\ phase' = "sync"
    /\ UNCHANGED <<tree, tree0, loc, exitmsg, renames, visited, entries, args, idx,
                   current_entry, manifest, failure, site, site0, wlog, failed_in, runs>>

\* require_env_url with GDRIVE_FOLDER_URL empty: SystemExit
RequireEnvUrlFails ==
    /\ phase = "require_url"
    /\ Raise("config", UrlEmptyExit)
    /\ UNCHANGED <<tree, tree0, loc, renames, visited, entries, args, idx,
                   current_entry, manifest, failure, site, site0, wlog, runs>>

\* sync_drive_folder: content/drive removed, then filled by the download
SyncDriveFolder ==
    /\ phase = "sync"
    /\ tree' \in SyncTrees
    /\ phase' = "normalize"
    /\ UNCHANGED <<tree0, loc, exitmsg, renames, visited, entries, args, idx,
                   current_entry, manifest, failure, site, site0, wlog, failed_in, runs>>

\* sync_drive_folder raising (the fallback CLI fails): content/drive holds
\* what was downloaded until then
SyncDriveFolderFails ==
    /\ phase = "sync"
    /\ tree' \in SyncTrees
    /\ Raise("sync", Traceback)
    /\ UNCHANGED <<tree0, loc, renames, visited, entries, args, idx,
                   current_entry, manifest, failure, site, site0, wlog, runs>>

\* normalize_downloaded_files(SRC_DIR) in main: returns, or SystemExit
NormalizeStep ==
    /\ phase = "normalize"
    /\ \E files \in VisitOrders(DOMAIN tree) :
         LET st == normalize_downloaded_files(tree, files)
         IN  /\ tree' = st.fs
             /\ IF st.exit = NoExit
                THEN phase' = "assert" /\ UNCHANGED <<exitmsg, failed_in>>
                ELSE Raise("normalize", st.exit)
    /\ UNCHANGED <<tree0, loc, renames, visited, entries, args, idx,
                   current_entry, manifest, failure, site, site0, wlog, runs>>

\* assert_has_docs(SRC_DIR) in main: returns, or SystemExit
AssertHasDocs ==
    /\ phase = "assert"
    /\ IF assert_has_docs(tree)
       THEN /\ phase' = IF args.do_build THEN "prepare" ELSE "exit_ok"
            /\ UNCHANGED <<exitmsg, failed_in>>
       ELSE Raise("assert", NoDocsExit)
    /\ UNCHANGED <<tree, tree0, loc, renames, visited, entries, args, idx,
                   current_entry, manifest, failure, site, site0, wlog, runs>>

\* ensure_dirs, and clean_generated_dirs unless --no-clean (lines 86-88)
PrepareBuild ==
    /\ phase = "prepare"
    /\ site' = IF args.no_clean THEN site ELSE clean_generated_dirs(site)
    /\ phase' = "collect"
    /\ UNCHANGED <<tree, tree0, loc, exitmsg, renames, visited, entries, args, idx,
                   current_entry, manifest, failure, site0, wlog, failed_in, runs>>

\* ensure_dirs or clean_generated_dirs raising, the directories removed or not
PrepareBuildFails ==
    /\ phase = "prepare"
    /\ \E cleaned \in BOOLEAN :
         /\ (cleaned => ~args.no_clean)
         /\ site' = IF cleaned THEN clean_generated_dirs(site) ELSE site
    /\ Raise("prepare", Traceback)
    /\ UNCHANGED <<tree, tree0, loc, renames, visited, entries, args, idx,
                   current_entry, manifest, failure, site0, wlog, runs>>

\* collect_entries and write_manifest(status="collected") (lines 90-91)
CollectEntries ==
    /\ phase = "collect"
    /\ \E files \in VisitOrders(DOMAIN tree) :
         LET es == collect_entries(files)
         IN  /\ entries' = es
             /\ manifest' = ManifestPayload(es, "collected", NoExit, NoEntry)
    /\ wlog' = Append(wlog, "manifest:collected")
    /\ phase' = "build"
    /\ UNCHANGED <<tree, tree0, loc, exitmsg, renames, visited, args, idx,
                   current_entry, failure, site, site0, failed_in, runs>>

\* collect_entries raising (mkdir fails)
CollectEntriesFails ==
    /\ phase = "collect"
    /\ Raise("collect", Traceback)
    /\ UNCHANGED <<tree, tree0, loc, renames, visited, entries, args, idx,
                   current_entry, manifest, failure, site, site0, wlog, runs>>

\* one pass of the for loop: current_entry = e, build_docx or build_pdf
BuildEntry ==
    /\ phase = "build"
    /\ idx < Len(entries)
    /\ LET e == entries[idx + 1]
       IN  /\ current_entry' = e
           /\ site' = Publish(site, {e.out_file, e.out_html})
    /\ idx' = idx + 1
    /\ UNCHANGED <<tree, tree0, loc, exitmsg, renames, visited, entries, args, phase,
                   manifest, failure, site0, wlog, failed_in, runs>>

\* build_docx / build_pdf raising, before or after the copy of the original
BuildEntryFails ==
    /\ phase = "build"
    /\ idx < Len(entries)
    /\ LET e == entries[idx + 1]
       IN  /\ current_entry' = e
           /\ \E copied \in BOOLEAN :
                site' = IF copied THEN Publish(site, {e.out_file}) ELSE site
    /\ Raise("entry", Traceback)
    /\ UNCHANGED <<tree, tree0, loc, renames, visited, entries, args, idx,
                   manifest, failure, site0, wlog, runs>>

\* build_indexes writes the three index pages in this order
IndexPages == <<RootIndex, NotesIndex, DownloadsIndex>>

\* build_indexes after the loop
BuildIndexes ==
    /\ phase = "build"
    /\ idx = Len(entries)
    /\ site' = Publish(site, SeqRange(IndexPages))
    /\ phase' = "final"
    /\ UNCHANGED <<tree, tree0, loc, exitmsg, renames, visited, entries, args, idx,
                   current_entry, manifest, failure, site0, wlog, failed_in, runs>>

\* build_indexes raising after k of the index pages are written
BuildIndexesFails ==
    /\ phase = "build"
    /\ idx = Len(entries)
    /\ \E k \in 0..(Len(IndexPages) - 1) :
         site' = Publish(site, {IndexPages[i] : i \in 1..k})
    /\ Raise("indexes", Traceback)
    /\ UNCHANGED <<tree, tree0, loc, renames, visited, entries, args, idx,
                   current_entry, manifest, failure, site0, wlog, runs>>

\* write_manifest(status="success") (line 102), main returns
WriteSuccess ==
    /\ phase = "final"
    /\ manifest' = ManifestPayload(entries, "success", NoExit, NoEntry)
    /\ wlog' = Append(wlog, "manifest:success")
    /\ phase' = "exit_ok"
    /\ UNCHANGED <<tree, tree0, loc, exitmsg, renames, visited, entries, args, idx,
                   current_entry, failure, site, site0, failed_in, runs>>

\* write_manifest(status="success") raising
WriteSuccessFails ==
    /\ phase = "final"
    /\ Raise("final_manifest", Traceback)
    /\ UNCHANGED <<tree, tree0, loc, renames, visited, entries, args, idx,
                   current_entry, manifest, failure, site, site0, wlog, runs>>

\* on_failure writing the manifest alone
OnFailure_manifest_only ==
    /\ phase = "except"
    /\ manifest' = ManifestPayload(entries, "failed", exitmsg, current_entry)
    /\ wlog' = Append(wlog, "manifest:failed")
    /\ phase' = "exit_failed"
    /\ UNCHANGED <<tree, tree0, loc, exitmsg, renames, visited, entries, args, idx,
                   current_entry, failure, site, site0, failed_in, runs>>

\* the except clauses of main: on_failure writes the manifest with status
\* "failed" and then failure.json; the process exits with the failure
OnFailure ==
    /\ phase = "except"
    /\ manifest' = ManifestPayload(entries, "failed", exitmsg, current_entry)
    /\ failure' = FailurePayload(exitmsg, current_entry)
    /\ wlog' = wlog \o <<"manifest:failed", "failure">>
    /\ phase' = "exit_failed"
    /\ UNCHANGED <<tree, tree0, loc, exitmsg, renames, visited, entries, args, idx,
                   current_entry, site, site0, failed_in, runs>>

Next ==
    \/ Start
    \/ RequireEnvUrl \/ RequireEnvUrlFails
    \/ SyncDriveFolder \/ SyncDriveFolderFails
    \/ NormalizeStep
    \/ AssertHasDocs
    \/ PrepareBuild \/ PrepareBuildFails
    \/ CollectEntries \/ CollectEntriesFails
    \/ BuildEntry \/ BuildEntryFails
    \/ BuildIndexes \/ BuildIndexesFails
    \/ WriteSuccess \/ WriteSuccessFails
    \/ OnFailure

Spec == InitMain /\ [][Next]_vars

------------------------------------------------------------------------------
(* Properties of the normalizer                                             *)

HasPdfSignature(f) == StartsWith(f.bytes, PdfMagic)
HasZipSignature(f) == StartsWith(f.bytes, ZipMagic)
HasHtmlSignature(f) ==
    LET l == Lower(LStrip(f.bytes))
    IN  ~HasPdfSignature(f) /\ ~HasZipSignature(f)
        /\ (StartsWith(l, DoctypeTag) \/ StartsWith(l, HtmlTag))
SignatureKind(f) == IF HasPdfSignature(f) THEN "pdf" ELSE "docx"
IsStubPath(p) == Lower(PathSuffix(p)) \in StubSuffixes
NormalizedOnce == phase = "normalized"
ScanCompleted == exitmsg.kind # "unique"

\* every file of the input tree is still there, under loc, with its bytes,
\* and no two files ended under one name
NothingLost ==
    /\ \A p \in DOMAIN tree0 : loc[p] \in DOMAIN tree /\ tree[loc[p]] = tree0[p]
    /\ \A p, q \in DOMAIN tree0 : loc[p] = loc[q] => p = q
    /\ Cardinality(DOMAIN tree) = Cardinality(DOMAIN tree0)

\* C2: whenever normalize_downloaded_files returns without failing, every file
\* of the tree with extension .docx or .pdf has content whose signature
\* matches that extension (the claim as stated; the code leaves files of
\* unknown signature under the document extension they came with).
C2_ExtensionMatchesSignature ==
    (NormalizedOnce /\ exitmsg = NoExit) =>
        \A p \in DOMAIN tree :
            /\ PathSuffix(p) = DotPdf => HasPdfSignature(tree[p])
            /\ PathSuffix(p) = DotDocx => HasZipSignature(tree[p])

\* C3 as stated: every file with a valid PDF or ZIP signature, whatever its
\* extension (stub extensions such as .gdoc included), ends under a name with
\* extension .pdf / .docx, bytes unchanged, nothing overwritten or removed.
\* (Read in the claim's favour: only files the classifier can read, and the
\* extension compared in any letter case.)
C3_EverySignatureRenamed ==
    NormalizedOnce =>
        /\ NothingLost
        /\ \A p \in DOMAIN tree0 :
             (/\ tree0[p].readable
              /\ (HasPdfSignature(tree0[p]) \/ HasZipSignature(tree0[p]))) =>
                 Lower(PathSuffix(loc[p])) = KindSuffix(SignatureKind(tree0[p]))

\* C3 amended: every readable file with a valid PDF or ZIP signature whose
\* extension is not a stub extension (.gdoc, .gsheet, .gslides) ends, once the
\* scan has completed, under a name whose extension is .pdf / .docx (in any
\* letter case), with its bytes unchanged, and no file of the tree was
\* overwritten or removed; error pages elsewhere in the tree do not stop it.
C3_ReadableNonStubRenamed ==
    (NormalizedOnce /\ ScanCompleted) =>
        /\ NothingLost
        /\ \A p \in DOMAIN tree0 :
             (/\ tree0[p].readable
              /\ ~IsStubPath(p)
              /\ (HasPdfSignature(tree0[p]) \/ HasZipSignature(tree0[p]))) =>
                 Lower(PathSuffix(loc[p])) = KindSuffix(SignatureKind(tree0[p]))

\* the scenario A.txt -> A.pdf, sub/B -> sub/B.docx with sub/B.pdf an error page
C3_Witness ==
    /\ NormalizedOnce
    /\ DOMAIN tree0 = {<<"A",".","t","x","t">>, <<"s","u","b","/","B">>, <<"s","u","b","/","B",".","p","d","f">>}
    /\ tree0[<<"A",".","t","x","t">>] = PdfBytes /\ tree0[<<"s","u","b","/","B">>] = ZipBytes
    /\ tree0[<<"s","u","b","/","B",".","p","d","f">>] = HtmlBytes
    /\ loc[<<"A",".","t","x","t">>] = <<"A",".","p","d","f">> /\ loc[<<"s","u","b","/","B">>] = <<"s","u","b","/","B",".","d","o","c","x">>
    /\ exitmsg.kind = "html" /\ exitmsg.names = <<<<"B",".","p","d","f">>>>
    /\ renames = 2

\* the error pages the scan looks at: readable HTML files without a stub extension
ErrorPages(fs) ==
    {p \in DOMAIN fs : fs[p].readable /\ HasHtmlSignature(fs[p]) /\ ~IsStubPath(p)}

\* C4 as stated: every file with an HTML signature is left unrenamed and is
\* named in the aggregated failure, however many such files there are.
\* (Read in the claim's favour: only the files the scan classifies, that is
\* readable files without a stub extension.)
C4_EveryErrorPageNamed ==
    NormalizedOnce =>
        \A p \in ErrorPages(tree0) :
            /\ loc[p] = p
            /\ exitmsg.kind = "html"
            /\ PathName(p) \in SeqRange(exitmsg.names)

\* C4 amended: every error page (HTML signature, no stub extension) is left
\* unrenamed; when the scan completes and there is at least one, a single
\* failure is raised after the scan, and it names the first three error pages
\* of the scan order (all of them when there are at most three).
C4_FirstThreeErrorPagesNamed ==
    (NormalizedOnce /\ ScanCompleted) =>
        LET E == ErrorPages(tree0)
            n == IF Cardinality(E) < ErrCap THEN Cardinality(E) ELSE ErrCap
        IN  /\ \A p \in E : loc[p] = p /\ p \in DOMAIN tree /\ tree[p] = tree0[p]
            /\ (E = {}) <=> (exitmsg = NoExit)
            /\ E # {} =>
                 /\ exitmsg.kind = "html"
                 /\ \E files \in VisitOrders(E) :
                      exitmsg.names = [i \in 1..n |-> PathName(files[i])]

\* four error pages: the failure names three of them
C4_Witness ==
    /\ NormalizedOnce
    /\ Cardinality(ErrorPages(tree0)) = ErrCap + 1
    /\ exitmsg.kind = "html"
    /\ Len(exitmsg.names) = ErrCap

\* C8: a second run of normalize_downloaded_files on the tree a run without
\* failure left renames nothing: the tree is the same before and after it.
C8_SecondRunRenamesNothing ==
    phase = "renormalized" =>
        /\ renames = 0
        /\ DOMAIN tree = DOMAIN tree0
        /\ tree = tree0
        /\ exitmsg = NoExit

\* the second run ran on a tree in which the first run had renamed a file
C8_Witness ==
    /\ phase = "renormalized"
    /\ \E p \in DOMAIN tree : p \notin NormPaths
    /\ renames = 0


------------------------------------------------------------------------------
(* Properties of the entry resolver                                         *)

Collected == phase = "collected"
EntryIndexes == 1..Len(entries)
IsDocPath(f) == Lower(PathSuffix(f)) \in {DotDocx, DotPdf}

\* C1: after collect_entries, two distinct entries with the same rel_dir have
\* different rel_stem values, hence different out_html and out_file paths
\* (the claim as stated; a file whose own slug is "note-2" gets the stem the
\* second "note" was given).
C1_StemsDistinct ==
    Collected =>
        \A i, j \in EntryIndexes :
            (i # j /\ entries[i].rel_dir = entries[j].rel_dir) =>
                /\ entries[i].rel_stem # entries[j].rel_stem
                /\ entries[i].out_html # entries[j].out_html
                /\ entries[i].out_file # entries[j].out_file

\* the documents of one output directory that slugify to stem s, in visit order
Colliders(d, s) ==
    SelectSeq(visited, LAMBDA f : /\ IsDocPath(f)
                                  /\ safe_rel_dir(PathParent(f)) = d
                                  /\ slugify(PathStem(f)) = s)

StemOf(f) == LET i == CHOOSE i \in EntryIndexes : entries[i].src = f
             IN  entries[i].rel_stem

CollisionGroups ==
    {<<safe_rel_dir(PathParent(f)), slugify(PathStem(f))>> :
        f \in {g \in SeqRange(visited) : IsDocPath(g)}}

\* C9 as stated: of the files of one output directory that slugify to the
\* same stem s, the first in visit order gets s and the second gets s-1.
C9_SecondGetsMinusOne ==
    Collected =>
        \A g \in CollisionGroups :
            LET c == Colliders(g[1], g[2])
            IN  Len(c) >= 2 =>
                    /\ StemOf(c[1]) = g[2]
                    /\ StemOf(c[2]) = g[2] \o <<"-", "1">>

\* C9 amended: the first of them in visit order gets the stem s and the
\* second gets s-2 (the suffix is the count of files seen with that stem):
\* for Note.docx and note!!.docx the stems are note (note!!.docx, visited
\* first) and note-2 (Note.docx).
C9_SecondGetsMinusTwo ==
    Collected =>
        \A g \in CollisionGroups :
            LET c == Colliders(g[1], g[2])
            IN  Len(c) >= 2 =>
                    /\ StemOf(c[1]) = g[2]
                    /\ StemOf(c[2]) = g[2] \o <<"-", "2">>

\* Note.docx and note!!.docx in one directory
C9_Witness ==
    /\ Collected
    /\ visited = <<<<"n","o","t","e","!","!",".","d","o","c","x">>, <<"N","o","t","e",".","d","o","c","x">>>>
    /\ StemOf(<<"n","o","t","e","!","!",".","d","o","c","x">>) = <<"n","o","t","e">>
    /\ StemOf(<<"N","o","t","e",".","d","o","c","x">>) = <<"n","o","t","e","-","2">>

------------------------------------------------------------------------------
(* Properties of the build pipeline                                         *)

Exited == phase \in {"exit_ok", "exit_failed"}
RunFailed == phase = "exit_failed"
ManifestWrites ==
    SelectSeq(wlog, LAMBDA w : w \in {"manifest:collected", "manifest:success",
                                      "manifest:failed"})
BeforeBuild == {"config", "sync", "normalize", "assert"}

C6_EveryRunWritesTerminalManifest ==
    (Exited /\ (args.do_sync \/ args.do_build)) =>
        /\ ManifestWrites # <<>>
        /\ ManifestWrites[Len(ManifestWrites)] \in {"manifest:success", "manifest:failed"}

\* C7: a run that fails during collection, a per-entry build or index
\* assembly leaves the published site as it was before the run (the claim as
\* stated; the code cleans and publishes in place).
C7_FailedBuildLeavesSiteUntouched ==
    (RunFailed /\ failed_in \in {"collect", "entry", "indexes"}) => site = site0

\* C10: in the manifest and in the failure artifact of a failed run,
\* current_entry is the entry that was being built when the failure occurred,
\* and null when none was: before entry resolution, and after the last entry
\* was built (the claim as stated; the code keeps the last entry of the loop).
C10_CurrentEntryIsEntryInFlight ==
    RunFailed =>
        LET inflight == IF failed_in = "entry" THEN entry_to_json(entries[idx + 1])
                        ELSE NoEntry
        IN  /\ manifest.current_entry = inflight
            /\ failure.current_entry = inflight

\* the tree holds a file that normalization classifies as pdf or docx: not a
\* stub, and sniff_kind_and_error gives it that kind
HasDetectedDoc(fs) ==
    \E p \in DOMAIN fs :
        /\ ~IsStubPath(p)
        /\ sniff_kind_and_error(fs, p).kind \in {"pdf", "docx"}
\* this run synced, normalized, and assert_has_docs returned
AssertPassed ==
    /\ args.do_sync
    /\ \/ phase \in {"prepare", "collect", "build", "final", "exit_ok"}
       \/ phase \in {"except", "exit_failed"} /\ failed_in \notin BeforeBuild
\* this run synced, normalized, and assert_has_docs raised
AssertFailed == failed_in = "assert"

\* C11: after normalization, assert_has_docs lets the run continue exactly
\* when the tree holds at least one file whose detected kind is docx or pdf;
\* otherwise the run fails with the configuration-hint message (the claim as
\* stated; the code looks for names ending in .docx or .pdf, whatever the
\* content of the file is).
C11_ContinuesIffDetectedDoc ==
    /\ AssertPassed => HasDetectedDoc(tree)
    /\ AssertFailed => (~HasDetectedDoc(tree) /\ exitmsg = NoDocsExit)

------------------------------------------------------------------------------
(* Properties of the final list order                                       *)

\* C12: the sort key is a strict total order on the entries of one output
\* directory: two distinct entries with the same rel_dir returned by
\* collect_entries have different sort keys, and the final list is the same
\* for every order in which the files of the tree can be visited (the claim
\* as stated; the key is made of the title alone, so note.pdf and NOTE.pdf, or
\* Note.docx and note.pdf, share a key, and sorted() then keeps the order in
\* which the files were visited).
C12_SortKeyStrictAndOrderFixed ==
    Collected =>
        /\ \A i, j \in EntryIndexes :
              (i # j /\ entries[i].rel_dir = entries[j].rel_dir) =>
                  entries[i].sort_key # entries[j].sort_key
        /\ \A files \in VisitOrders(DOMAIN tree) : collect_entries(files) = entries

------------------------------------------------------------------------------
(* Properties of the artifacts over several runs                            *)

\* C13: over any sequence of runs of main on one output directory, after
\* every run the failure artifact exists exactly when the manifest status is
\* "failed", and then carries the manifest's error and current_entry; after a
\* run that ends with status "success" no failure artifact of an earlier run
\* remains (the claim as stated; no step of main removes failure.json).
C13_FailureArtifactAgreesWithManifest ==
    Exited =>
        /\ manifest.status = "failed" => failure.status = "written"
        /\ failure.status = "written" =>
              /\ manifest.status = "failed"
              /\ failure.error = manifest.error
              /\ failure.current_entry = manifest.current_entry

====
